---- MODULE Spec2Model ----
(***************************************************************************)
(* Two-phase upload-and-commit workflow of the admission portal:           *)
(*   - MediaService.getSignedURL, the upload URL broker (api);             *)
(*   - ReportPage.handleUpload, the report workflow (website/front);       *)
(*   - ApplicationForm.onSubmit, the application-form workflow.            *)
(* JavaScript strings that the code builds by interpolation are tuples of  *)
(* their segments; null/undefined are the values below.                    *)
(***************************************************************************)
EXTENDS Integers, Sequences, FiniteSets, TLC

\* ------------------------------------------------------------------ bounds
\* each page starts at most MaxRuns submissions
MaxRuns == 2

\* -------------------------------------------------- the upload URL broker
\* acceptedTypes with one more image type let in
acceptedTypes_WithGif ==
    << "image/png", "image/jpeg", "image/jpg", "image/png", "image/webp",
       "application/pdf", "image/gif" >>

\* media.service.ts:14-21 (the list holds 'image/png' twice, as the code does)
acceptedTypes ==
    << "image/png", "image/jpeg", "image/jpg", "image/png", "image/webp",
       "application/pdf" >>

\* media.service.ts:23
maxFileSize == 1024 * 1024 * 15

\* Array.prototype.includes
includes(arr, x) == \E i \in 1..Len(arr) : arr[i] = x

\* JavaScript null, as getSignedURL returns it
Null == [signed |-> FALSE]

\* new PutObjectCommand({...}), media.service.ts:40-47
PutObjectCommand(userId, filename, type, size, checksum) ==
    [ Key |-> filename, ContentType |-> type, ContentLength |-> size,
      ChecksumSHA256 |-> checksum, Metadata |-> userId ]

\* getSignedUrl(s3, command, {expiresIn}) of the AWS presigner
getSignedUrl(command, expiresIn) ==
    [ signed |-> TRUE, cmd |-> command, expiresIn |-> expiresIn ]

\* getSignedURL with the size test written >= instead of >
getSignedURLExec_ExclusiveCeiling(userId, filename, type, size, checksum) ==
    IF ~includes(acceptedTypes, type)
      THEN [ ret |-> Null, signedCommands |-> {} ]
    ELSE IF size >= maxFileSize
      THEN [ ret |-> Null, signedCommands |-> {} ]
    ELSE LET putObjectCommand ==
                 PutObjectCommand(userId, filename, type, size, checksum)
         IN  [ ret |-> getSignedUrl(putObjectCommand, 60),
               signedCommands |-> { putObjectCommand } ]

\* The body of MediaService.getSignedURL, media.service.ts:25-54: what it
\* returns (ret) and the commands it constructed and signed on the way
getSignedURLExec(userId, filename, type, size, checksum) ==
    IF ~includes(acceptedTypes, type)
      THEN [ ret |-> Null, signedCommands |-> {} ]
    ELSE IF size > maxFileSize
      THEN [ ret |-> Null, signedCommands |-> {} ]
    ELSE LET putObjectCommand ==
                 PutObjectCommand(userId, filename, type, size, checksum)
         IN  [ ret |-> getSignedUrl(putObjectCommand, 60),
               signedCommands |-> { putObjectCommand } ]


\* ------------------------------------------------------------------- state
VARIABLES
    \* the pages the browser has open on the application, and the number of
    \* submissions each has started
    opened, r_runs, f_runs,
    \* the server: the applications-open setting, the application record,
    \* the objects in storage
    applicationsOpen, db, stored,
    \* a direct call of the broker: its arguments, its position, its result,
    \* the commands it has signed
    b_args, b_pc, b_ret, minted,
    \* ReportPage: userData (the store, read when the page loads) and its
    \* useState fields
    r_userData, isApplicationsOpen, isCheckingStatus, selectedFile, uploading,
    r_toast,
    \* handleUpload: the call it awaits, its locals, its console output
    r_pc, r_file, r_checksum, r_signedURLResponse, r_uploadResponse,
    r_response, r_statusResponse, r_console,
    \* history of the report page: the status query's answer; of the current
    \* (or last) run of handleUpload: the calls made, where it threw, the
    \* record when it started
    r_statusQuery, r_calls, r_failedAt, r_start,
    \* ApplicationForm: userData and its useState fields
    f_userData, isFormLoading, error, showErrorDialog, f_toast,
    \* onSubmit: the call it awaits, its locals, its console output
    f_pc, f_files, f_index, f_applicationId, f_checksum, f_console,
    \* history of the current (or last) run of onSubmit
    f_responses, f_calls, f_failedAt, f_start

serverVars == << opened, applicationsOpen, db, stored >>
runVars == << r_runs, f_runs >>
brokerVars == << b_args, b_pc, b_ret, minted >>
reportVars ==
    << r_userData, isApplicationsOpen, isCheckingStatus, selectedFile,
       uploading, r_toast, r_pc, r_file, r_checksum, r_signedURLResponse,
       r_uploadResponse, r_response, r_statusResponse, r_console,
       r_statusQuery, r_calls, r_failedAt, r_start >>
formVars ==
    << f_userData, isFormLoading, error, showErrorDialog, f_toast, f_pc,
       f_files, f_index, f_applicationId, f_checksum, f_console,
       f_responses, f_calls, f_failedAt, f_start >>
vars == << serverVars, runVars, brokerVars, reportVars, formVars >>

\* ------------------------------------------------------- values and inputs
\* '' (also standing for an absent string)
EmptyString == << >>

firstName == "Ada"
lastName == "Lovelace"

\* getUploadFolderName(firstName, lastName), lib/utils
getUploadFolderName(first, last) == << first, last >>

\* `upload_mtym/${uploadFolderName}/${file.name}`
objectKey(uploadFolderName, name) == << "upload_mtym", uploadFolderName, name >>

\* generateFileName(), lib/utils: its result is an input, one of these
Names == { "k3x9", "q7m2" }

\* a report stored before the page was opened
OldReportUrl ==
    objectKey(getUploadFolderName(firstName, lastName), << "report_", "a0b1", "pdf" >>)

\* the content types a browser may report for a chosen file
ContentTypes ==
    { "image/png", "image/jpeg", "image/jpg", "image/webp", "application/pdf",
      "application/zip", "image/gif", "text/html", "" }

\* file sizes around the ceiling
Sizes == { 0, 1, maxFileSize - 1, maxFileSize, maxFileSize + 1, 2 * maxFileSize }

Checksums == { "sha256-a", "sha256-b" }

\* computeSHA256(file), lib/utils: the digest of the file's bytes, the same
\* for the same bytes
computeSHA256(file) == IF file.size % 2 = 0 THEN "sha256-a" ELSE "sha256-b"

\* the files a user may pick on the report page: [name (base, extension), type, size]
ReportInputFiles ==
    { [ name |-> << "devoir", "pdf" >>, type |-> "application/pdf", size |-> 1 ],
      [ name |-> << "devoir", "png" >>, type |-> "image/png", size |-> maxFileSize ],
      [ name |-> << "devoir", "pdf" >>, type |-> "application/pdf",
        size |-> maxFileSize + 1 ],
      [ name |-> << "devoir", "zip" >>, type |-> "application/zip", size |-> 1 ] }

\* the files a user may attach to the application form
FormInputFiles ==
    { [ name |-> << "doc", "pdf" >>, type |-> "application/pdf", size |-> 1 ],
      [ name |-> << "doc", "zip" >>, type |-> "application/zip", size |-> 1 ] }

NoFile == [ name |-> EmptyString, type |-> "", size |-> 0 ]

\* no toast shown
NoToast == [ title |-> "", description |-> EmptyString, variant |-> "" ]

\* answers of the API calls; a call may also throw (thrown |-> TRUE)
\* getApplicationsOpenStatus(): null, {statusCode: 200, isOpen}, {statusCode: 500}
StatusQueryOutcomes ==
    { [ thrown |-> TRUE, isNull |-> FALSE, statusCode |-> 0, isOpen |-> FALSE ],
      [ thrown |-> FALSE, isNull |-> TRUE, statusCode |-> 0, isOpen |-> FALSE ],
      [ thrown |-> FALSE, isNull |-> FALSE, statusCode |-> 500, isOpen |-> TRUE ],
      [ thrown |-> FALSE, isNull |-> FALSE, statusCode |-> 200,
        isOpen |-> applicationsOpen ] }

\* getSignedURL(key, type, size, checksum) of MediaApi, answered by the
\* broker: null, {} or {url: null} on a rejection, {url} on a signed URL
SignedURLOutcomes(brokerRet) ==
    { [ thrown |-> TRUE, isNull |-> FALSE, url |-> Null ],
      [ thrown |-> FALSE, isNull |-> TRUE, url |-> Null ] }
    \cup { [ thrown |-> FALSE, isNull |-> FALSE, url |-> brokerRet ] }

\* uploadFile(url, file): null, {}, {success: false}, {success: true}
UploadOutcomes ==
    { [ thrown |-> TRUE, isNull |-> FALSE, success |-> FALSE ],
      [ thrown |-> FALSE, isNull |-> TRUE, success |-> FALSE ],
      [ thrown |-> FALSE, isNull |-> FALSE, success |-> FALSE ],
      [ thrown |-> FALSE, isNull |-> FALSE, success |-> TRUE ] }

\* postApplication, putApplication, updateApplicationStatus: null,
\* {statusCode: 200}, {statusCode: 500}
CommitOutcomes ==
    { [ thrown |-> TRUE, isNull |-> FALSE, statusCode |-> 0 ],
      [ thrown |-> FALSE, isNull |-> TRUE, statusCode |-> 0 ],
      [ thrown |-> FALSE, isNull |-> FALSE, statusCode |-> 500 ],
      [ thrown |-> FALSE, isNull |-> FALSE, statusCode |-> 200 ] }

\* a call not made yet
NoResponse == [ thrown |-> FALSE, isNull |-> TRUE, statusCode |-> 0 ]
NoUploadResponse == [ thrown |-> FALSE, isNull |-> TRUE, success |-> FALSE ]
NoSignedURLResponse == [ thrown |-> FALSE, isNull |-> TRUE, url |-> Null ]
NoStatusQuery ==
    [ thrown |-> FALSE, isNull |-> TRUE, statusCode |-> 0, isOpen |-> FALSE ]

\* the message of the error an API call throws
NetworkErrorMessage == << "Network Error" >>

\* new Date().toISOString()
Timestamp == "2025-01-01T00:00:00.000Z"

\* the server's record commit: the fields of the payload replace the record's
attachObject(record, field, objectKeyValue) ==
    [ record EXCEPT ![field] = objectKeyValue ]

\* the server's status update: one status field is set
resetReviewStatus(record, field, newValue) ==
    [ record EXCEPT !.status[field] = newValue ]

\* the user the server authenticates
UserId == 7

\* String(statusCode) inside a template literal
StatusText(statusCode) ==
    CASE statusCode = 200 -> "200"
      [] statusCode = 500 -> "500"
      [] OTHER -> "undefined"

\* response?.statusCode === 200
IsStatus200(response) ==
    ~response.thrown /\ ~response.isNull /\ response.statusCode = 200

\* ------------------------------------------------------------ ReportPage
\* checkApplicationStatus keeping the initial true when the query fails
checkApplicationStatus_FailOpen(response) ==
    IF response.thrown THEN TRUE
    ELSE IF ~response.isNull /\ response.statusCode = 200 THEN response.isOpen
    ELSE TRUE

\* the status query's effect on isApplicationsOpen, page.tsx:44-60
checkApplicationStatus(response) ==
    IF response.thrown THEN FALSE
    ELSE IF ~response.isNull /\ response.statusCode = 200 THEN response.isOpen
    ELSE FALSE

\* content.redirectToApplication, page.tsx:264-278
redirectToApplication(userData) ==
    ~(userData.application.status.status # "DRAFT")

\* the loading guard without isCheckingStatus: the card is rendered while the
\* status query is pending
skeletonShown_IgnoresStatusCheck == FALSE

\* the skeleton is shown instead of the card, page.tsx:418
skeletonShown == isCheckingStatus

\* the submit button's disabled attribute, page.tsx:507
buttonDisabled ==
    \/ (~isApplicationsOpen /\ ~redirectToApplication(r_userData))
    \/ uploading
    \/ (selectedFile = NoFile /\ ~redirectToApplication(r_userData))

\* the file input is rendered, page.tsx:448
fileInputShown ==
    ~skeletonShown /\ ~redirectToApplication(r_userData) /\ isApplicationsOpen

\* handleFileChange's acceptedFileTypes, page.tsx:70
acceptedFileTypes ==
    << "application/pdf", "image/png", "image/jpeg", "image/jpg" >>

\* handleFileChange's maxSizeInBytes, page.tsx:80
maxSizeInBytes == 15 * 1024 * 1024

\* !signedURLResponse || !signedURLResponse.url, page.tsx:141
r_signedURLRejected(signedURLResponse) ==
    signedURLResponse.isNull \/ ~signedURLResponse.url.signed

\* the check of the upload's answer left out: a call that did not throw counts
\* as a transfer
r_uploadRejected_Unchecked(uploadResponse) == FALSE

\* the check of the upload's answer testing only !uploadResponse
r_uploadRejected_NullOnly(uploadResponse) == uploadResponse.isNull

\* !uploadResponse || !uploadResponse.success, page.tsx:155
r_uploadRejected(uploadResponse) ==
    uploadResponse.isNull \/ ~uploadResponse.success

\* the message thrown when no signed URL came back, page.tsx:144
SignedURLErrorMessage ==
    << "Impossible d'obtenir une URL de telechargement. Veuillez reessayer ou contacter le support." >>

\* page.tsx:156
UploadErrorMessage ==
    << "S3 upload validation failed - unexpected response format" >>

\* the urgent message without the owner's name and the timestamp
UrgentMessage_NoIdentity(response, userData, timestamp) ==
    << "URGENT: File uploaded successfully to S3 but database update failed (Status: ",
       StatusText(IF response.isNull THEN 0 ELSE response.statusCode),
       "). Your file is safe in S3. Please contact support immediately." >>

\* the message thrown when the record commit answered another status than 200,
\* page.tsx:224
UrgentMessage(response, userData, timestamp) ==
    << "URGENT: File uploaded successfully to S3 but database update failed (Status: ",
       StatusText(IF response.isNull THEN 0 ELSE response.statusCode),
       "). Your file is safe in S3. Please contact support immediately with your name: ",
       userData.firstName, " ", userData.lastName,
       " and this timestamp: ", timestamp >>

\* the toast's description when error.message is empty, page.tsx:249
DefaultErrorDescription ==
    << "Une erreur est survenue lors de l'envoi du fichier. Veuillez reessayer ou contacter le support si le probleme persiste." >>

\* the destructive toast of handleUpload's catch, page.tsx:247-251
ErrorToast(message) ==
    [ title |-> "Erreur lors de l'envoi",
      description |-> IF message # EmptyString THEN message
                      ELSE DefaultErrorDescription,
      variant |-> "destructive" ]

\* the toast after the commit, page.tsx:197-202
SuccessToast(currentReportStatus) ==
    [ title |-> "Travail envoye avec succes",
      description |->
          IF currentReportStatus = "VALID"
          THEN << "Votre travail a ete mis a jour et est maintenant en cours d'examen" >>
          ELSE << "Votre travail a ete telecharge et sera examine par notre equipe" >>,
      variant |-> "" ]

\* page.tsx:96-100
ClosedToast ==
    [ title |-> "Soumissions fermees",
      description |-> << "Les candidatures sont actuellement fermees. Vous ne pouvez pas soumettre de devoir maison." >>,
      variant |-> "destructive" ]

\* a console entry: its level, its text, the message and the URLs in its data
ConsoleEntry(level, text, message, urls) ==
    [ level |-> level, text |-> text, message |-> message, urls |-> urls ]

\* `upload_mtym/${uploadFolderName}/${file.name}`, page.tsx:117, 133, 161
r_objectKey ==
    objectKey(getUploadFolderName(r_userData.firstName, r_userData.lastName),
              r_file.name)

\* the reference built from the name of the file the user picked instead of
\* the renamed file's
reportUrl_FromSelectedFile ==
    objectKey(getUploadFolderName(r_userData.firstName, r_userData.lastName),
              selectedFile.name)

\* const reportUrl = `upload_mtym/${uploadFolderName}/${file.name}`, page.tsx:161
reportUrl ==
    objectKey(getUploadFolderName(r_userData.firstName, r_userData.lastName),
              r_file.name)

\* what the page reads when it loads
LoadUserData ==
    [ firstName |-> firstName, lastName |-> lastName,
      application |-> [ id |-> db.id, status |-> db.status ] ]

\* the state handleUpload leaves alone
r_pageEnv ==
    << r_userData, isApplicationsOpen, isCheckingStatus, selectedFile,
       r_statusQuery, r_start >>

\* the useEffect of page.tsx:43-63: the status query answers
R_CheckApplicationStatus ==
    /\ "report" \in opened
    /\ isCheckingStatus
    /\ \E response \in StatusQueryOutcomes :
          /\ r_statusQuery' = response
          /\ isApplicationsOpen' = checkApplicationStatus(response)
          /\ r_console' =
                IF response.thrown
                THEN Append(r_console,
                            ConsoleEntry("error", "Failed to check application status",
                                         NetworkErrorMessage, {}))
                ELSE r_console
    /\ isCheckingStatus' = FALSE
    /\ UNCHANGED << serverVars, runVars, brokerVars, formVars, r_userData, selectedFile,
                    uploading, r_toast, r_pc, r_file, r_checksum,
                    r_signedURLResponse, r_uploadResponse, r_response,
                    r_statusResponse, r_calls, r_failedAt, r_start >>

\* handleFileChange, page.tsx:65-93
R_HandleFileChange ==
    /\ fileInputShown
    /\ r_pc \in { "idle", "failed" }
    /\ \E f \in ReportInputFiles :
          IF ~includes(acceptedFileTypes, f.type)
            THEN /\ r_toast' = [ title |-> "Format de fichier non valide",
                                 description |-> << "Veuillez choisir un fichier PDF ou une image (JPG, PNG)" >>,
                                 variant |-> "destructive" ]
                 /\ UNCHANGED selectedFile
          ELSE IF f.size > maxSizeInBytes
            THEN /\ r_toast' = [ title |-> "Fichier trop volumineux",
                                 description |-> << "La taille du fichier ne doit pas depasser 15 Mo" >>,
                                 variant |-> "destructive" ]
                 /\ UNCHANGED selectedFile
          ELSE /\ selectedFile' = f
               /\ UNCHANGED r_toast
    /\ UNCHANGED << serverVars, runVars, brokerVars, formVars, r_userData,
                    isApplicationsOpen, isCheckingStatus, uploading, r_pc,
                    r_file, r_checksum, r_signedURLResponse, r_uploadResponse,
                    r_response, r_statusResponse, r_console, r_statusQuery,
                    r_calls, r_failedAt, r_start >>

\* the "Supprimer" button, page.tsx:494-500
R_RemoveFile ==
    /\ fileInputShown
    /\ r_pc \in { "idle", "failed" }
    /\ selectedFile # NoFile
    /\ selectedFile' = NoFile
    /\ UNCHANGED << serverVars, runVars, brokerVars, formVars, r_userData,
                    isApplicationsOpen, isCheckingStatus, uploading, r_toast,
                    r_pc, r_file, r_checksum, r_signedURLResponse,
                    r_uploadResponse, r_response, r_statusResponse, r_console,
                    r_statusQuery, r_calls, r_failedAt, r_start >>

\* handleUpload up to its first await, page.tsx:94-128
handleUpload ==
    IF ~isApplicationsOpen
      THEN /\ r_toast' = ClosedToast
           /\ UNCHANGED << uploading, r_pc, r_file, r_checksum,
                           r_signedURLResponse, r_uploadResponse, r_response,
                           r_statusResponse, r_console, r_calls, r_failedAt,
                           r_start >>
    ELSE IF selectedFile = NoFile
      THEN /\ r_toast' = [ title |-> "Aucun fichier selectionne",
                           description |-> << "Veuillez selectionner un fichier avant de l'envoyer" >>,
                           variant |-> "destructive" ]
           /\ UNCHANGED << uploading, r_pc, r_file, r_checksum,
                           r_signedURLResponse, r_uploadResponse, r_response,
                           r_statusResponse, r_console, r_calls, r_failedAt,
                           r_start >>
    ELSE /\ uploading' = TRUE
         /\ \E n \in Names :
               r_file' = [ name |-> << "report_", n, selectedFile.name[2] >>,
                           type |-> selectedFile.type,
                           size |-> selectedFile.size ]
         /\ r_pc' = "computeSHA256"
         /\ r_calls' = << "computeSHA256" >>
         /\ r_checksum' = ""
         /\ r_signedURLResponse' = NoSignedURLResponse
         /\ r_uploadResponse' = NoUploadResponse
         /\ r_response' = NoResponse
         /\ r_statusResponse' = NoResponse
         /\ r_console' = << >>
         /\ r_failedAt' = "none"
         /\ r_start' = db
         /\ UNCHANGED r_toast

\* handleButtonClick, page.tsx:336-349, on the button of page.tsx:505-511
R_HandleButtonClick ==
    /\ r_runs < MaxRuns
    /\ ~skeletonShown
    /\ ~buttonDisabled
    /\ r_pc \in { "idle", "failed" }
    /\ IF redirectToApplication(r_userData)
         THEN /\ r_pc' = "navigated"
              /\ UNCHANGED << uploading, r_toast, r_file, r_checksum,
                              r_signedURLResponse, r_uploadResponse,
                              r_response, r_statusResponse, r_console,
                              r_calls, r_failedAt, r_start >>
       ELSE IF isApplicationsOpen
         THEN handleUpload
       ELSE /\ r_toast' = [ title |-> "Soumissions fermees",
                            description |-> << "Les candidatures sont actuellement fermees." >>,
                            variant |-> "destructive" ]
            /\ UNCHANGED << uploading, r_pc, r_file, r_checksum,
                            r_signedURLResponse, r_uploadResponse, r_response,
                            r_statusResponse, r_console, r_calls, r_failedAt,
                            r_start >>
    /\ r_runs' = IF r_pc' = "computeSHA256" THEN r_runs + 1 ELSE r_runs
    /\ UNCHANGED << serverVars, f_runs, brokerVars, formVars, r_userData,
                    isApplicationsOpen, isCheckingStatus, selectedFile,
                    r_statusQuery >>

\* handleUpload's catch without the finally: setUploading(false) only at the
\* end of the try block
r_catch_NoFinally(at, message, console) ==
    /\ r_console' =
          Append(console,
                 ConsoleEntry("error", "UPLOAD PROCESS FAILED - Complete error details:",
                              message, {}))
    /\ r_toast' = ErrorToast(message)
    /\ UNCHANGED uploading
    /\ r_failedAt' = at
    /\ r_pc' = "failed"

\* handleUpload's catch and finally, page.tsx:225-254: an error with this
\* message was thrown at `at`, after `console` had been written
r_catch(at, message, console) ==
    /\ r_console' =
          Append(console,
                 ConsoleEntry("error", "UPLOAD PROCESS FAILED - Complete error details:",
                              message, {}))
    /\ r_toast' = ErrorToast(message)
    /\ uploading' = FALSE
    /\ r_failedAt' = at
    /\ r_pc' = "failed"

\* await computeSHA256(file), page.tsx:128
R_ComputeSHA256Return ==
    /\ r_pc = "computeSHA256"
    /\ \/ /\ r_checksum' = computeSHA256(r_file)
          /\ r_pc' = "getSignedURL"
          /\ r_calls' = Append(r_calls, "getSignedURL")
          /\ UNCHANGED << uploading, r_toast, r_console, r_failedAt >>
       \/ /\ r_catch("computeSHA256", << "NotReadableError" >>, r_console)
          /\ UNCHANGED << r_checksum, r_calls >>
    /\ UNCHANGED << serverVars, runVars, brokerVars, formVars, r_pageEnv, r_file,
                    r_signedURLResponse, r_uploadResponse, r_response,
                    r_statusResponse >>

\* await getSignedURL(...) and the check of its answer, page.tsx:132-146
R_GetSignedURLReturn ==
    /\ r_pc = "getSignedURL"
    /\ LET exec == getSignedURLExec(UserId, r_objectKey, r_file.type,
                                    r_file.size, r_checksum)
       IN \E signedURLResponse \in SignedURLOutcomes(exec.ret) :
            /\ r_signedURLResponse' = signedURLResponse
            /\ IF signedURLResponse.thrown
                 THEN /\ r_catch("getSignedURL", NetworkErrorMessage, r_console)
                      /\ UNCHANGED r_calls
               ELSE LET logged ==
                          Append(r_console,
                                 ConsoleEntry("log", "Signed URL response:", EmptyString,
                                              IF signedURLResponse.isNull THEN {}
                                              ELSE { signedURLResponse.url }))
                    IN IF r_signedURLRejected(signedURLResponse)
                         THEN /\ r_catch("signedURLResponse", SignedURLErrorMessage,
                                         Append(logged,
                                                ConsoleEntry("error",
                                                             "Failed to get signed URL - Response:",
                                                             EmptyString,
                                                             IF signedURLResponse.isNull THEN {}
                                                             ELSE { signedURLResponse.url })))
                              /\ UNCHANGED r_calls
                       ELSE /\ r_console' =
                                  Append(logged,
                                         ConsoleEntry("log", "Starting S3 upload for file:",
                                                      EmptyString, {}))
                            /\ r_pc' = "uploadFile"
                            /\ r_calls' = Append(r_calls, "uploadFile")
                            /\ UNCHANGED << uploading, r_toast, r_failedAt >>
    /\ UNCHANGED << serverVars, runVars, brokerVars, formVars, r_pageEnv, r_file,
                    r_checksum, r_uploadResponse, r_response, r_statusResponse >>

\* await uploadFile(signedURLResponse.url, file) and the check of its answer,
\* page.tsx:149-163; the object lands at the key the URL was signed for
R_UploadFileReturn ==
    /\ r_pc = "uploadFile"
    /\ \E uploadResponse \in UploadOutcomes :
          /\ r_uploadResponse' = uploadResponse
          /\ stored' = IF ~uploadResponse.thrown /\ ~uploadResponse.isNull
                          /\ uploadResponse.success
                       THEN stored \cup { r_signedURLResponse.url.cmd.Key }
                       ELSE stored
          /\ IF uploadResponse.thrown
               THEN /\ r_catch("uploadFile", NetworkErrorMessage, r_console)
                    /\ UNCHANGED r_calls
             ELSE IF r_uploadRejected(uploadResponse)
               THEN /\ r_catch("uploadResponse", UploadErrorMessage, r_console)
                    /\ UNCHANGED r_calls
             ELSE /\ r_console' =
                        r_console \o
                        << ConsoleEntry("log", "S3 upload verified successful for file:",
                                        EmptyString, {}),
                           ConsoleEntry("log", "Updating database with reportUrl:",
                                        EmptyString, {}) >>
                  /\ r_pc' = "putApplication"
                  /\ r_calls' = Append(r_calls, "putApplication")
                  /\ UNCHANGED << uploading, r_toast, r_failedAt >>
    /\ UNCHANGED << runVars, opened, applicationsOpen, db, brokerVars, formVars,
                    r_pageEnv, r_file, r_checksum, r_signedURLResponse,
                    r_response, r_statusResponse >>

\* await putApplication(id, {reportUrl}) and the check of its answer,
\* page.tsx:166-172 and 208-225
R_PutApplicationReturn ==
    /\ r_pc = "putApplication"
    /\ \E response \in CommitOutcomes :
          /\ r_response' = response
          /\ db' = IF IsStatus200(response)
                   THEN attachObject(db, "reportUrl", reportUrl)
                   ELSE db
          /\ IF response.thrown
               THEN /\ r_catch("putApplication", NetworkErrorMessage, r_console)
                    /\ UNCHANGED r_calls
             ELSE LET logged ==
                        Append(r_console,
                               ConsoleEntry("log", "Database update response:",
                                            EmptyString, {}))
                  IN IF ~response.isNull /\ response.statusCode = 200
                       THEN /\ r_console' =
                                  logged \o
                                  << ConsoleEntry("log", "Database update successful - Report URL saved",
                                                  EmptyString, {}),
                                     ConsoleEntry("log", "Current report status:",
                                                  EmptyString, {}) >>
                            /\ r_pc' = "updateApplicationStatus"
                            /\ r_calls' = Append(r_calls, "updateApplicationStatus")
                            /\ UNCHANGED << uploading, r_toast, r_failedAt >>
                     ELSE /\ r_catch("response",
                                     UrgentMessage(response, r_userData, Timestamp),
                                     Append(logged,
                                            ConsoleEntry("error",
                                                         "DATABASE UPDATE FAILED - FILE IS IN S3 BUT NOT RECORDED:",
                                                         EmptyString, {})))
                          /\ UNCHANGED r_calls
    /\ UNCHANGED << runVars, opened, applicationsOpen, stored, brokerVars, formVars,
                    r_pageEnv, r_file, r_checksum, r_signedURLResponse,
                    r_uploadResponse, r_statusResponse >>

\* the status reset without its own try/catch: a thrown error reaches
\* handleUpload's catch
R_UpdateApplicationStatusReturn_Fatal ==
    /\ r_pc = "updateApplicationStatus"
    /\ \E statusResponse \in CommitOutcomes :
          /\ r_statusResponse' = statusResponse
          /\ db' = IF IsStatus200(statusResponse)
                   THEN resetReviewStatus(db, "reportStatus", "PENDING")
                   ELSE db
          /\ r_console' =
                IF statusResponse.thrown
                THEN Append(r_console,
                            ConsoleEntry("error", "Error resetting report status:",
                                         NetworkErrorMessage, {}))
                ELSE r_console \o
                     << ConsoleEntry("log", "Status update response:", EmptyString, {}),
                        IF ~statusResponse.isNull /\ statusResponse.statusCode = 200
                        THEN ConsoleEntry("log", "Report status reset to PENDING successfully",
                                          EmptyString, {})
                        ELSE ConsoleEntry("warn",
                                          "Failed to reset report status, but file upload was successful",
                                          EmptyString, {}) >>
    /\ uploading' = FALSE
    /\ IF r_statusResponse'.thrown
         THEN /\ r_toast' = ErrorToast(NetworkErrorMessage)
              /\ r_failedAt' = "updateApplicationStatus"
              /\ r_pc' = "failed"
       ELSE /\ r_toast' = SuccessToast(r_userData.application.status.reportStatus)
            /\ r_pc' = "reloading"
            /\ UNCHANGED r_failedAt
    /\ UNCHANGED << runVars, opened, applicationsOpen, stored, brokerVars, formVars,
                    r_pageEnv, r_file, r_checksum, r_signedURLResponse,
                    r_uploadResponse, r_response, r_calls >>

\* await updateApplicationStatus(id, {reportStatus: 'PENDING'}) in its own
\* try/catch, the success toast and the reload timer, page.tsx:177-207
R_UpdateApplicationStatusReturn ==
    /\ r_pc = "updateApplicationStatus"
    /\ \E statusResponse \in CommitOutcomes :
          /\ r_statusResponse' = statusResponse
          /\ db' = IF IsStatus200(statusResponse)
                   THEN resetReviewStatus(db, "reportStatus", "PENDING")
                   ELSE db
          /\ r_console' =
                IF statusResponse.thrown
                THEN Append(r_console,
                            ConsoleEntry("error", "Error resetting report status:",
                                         NetworkErrorMessage, {}))
                ELSE r_console \o
                     << ConsoleEntry("log", "Status update response:", EmptyString, {}),
                        IF ~statusResponse.isNull /\ statusResponse.statusCode = 200
                        THEN ConsoleEntry("log", "Report status reset to PENDING successfully",
                                          EmptyString, {})
                        ELSE ConsoleEntry("warn",
                                          "Failed to reset report status, but file upload was successful",
                                          EmptyString, {}) >>
    /\ r_toast' = SuccessToast(r_userData.application.status.reportStatus)
    /\ uploading' = FALSE
    /\ r_pc' = "reloading"
    /\ UNCHANGED << runVars, opened, applicationsOpen, stored, brokerVars, formVars,
                    r_pageEnv, r_file, r_checksum, r_signedURLResponse,
                    r_uploadResponse, r_response, r_calls, r_failedAt >>

\* the toast goes away (use-toast); of a run of handleUpload that has ended
\* nothing is left but the state of the page
R_ToastDismissed ==
    /\ r_pc \in { "idle", "failed" }
    /\ r_toast # NoToast
    /\ r_toast' = NoToast
    /\ r_pc' = "idle"
    /\ r_file' = NoFile
    /\ r_checksum' = ""
    /\ r_signedURLResponse' = NoSignedURLResponse
    /\ r_uploadResponse' = NoUploadResponse
    /\ r_response' = NoResponse
    /\ r_statusResponse' = NoResponse
    /\ r_console' = << >>
    /\ r_calls' = << >>
    /\ r_failedAt' = "none"
    /\ r_start' = db
    /\ UNCHANGED << serverVars, runVars, brokerVars, formVars, r_userData,
                    isApplicationsOpen, isCheckingStatus, selectedFile,
                    uploading, r_statusQuery >>

\* window.location.reload() after the timer of page.tsx:205-207, or the
\* user's return after router.push: the page is mounted anew
R_Reload ==
    /\ r_pc \in { "reloading", "navigated" }
    /\ r_pc' = "idle"
    /\ r_userData' = LoadUserData
    /\ isApplicationsOpen' = TRUE
    /\ isCheckingStatus' = TRUE
    /\ selectedFile' = NoFile
    /\ uploading' = FALSE
    /\ r_toast' = NoToast
    /\ r_statusQuery' = NoStatusQuery
    /\ r_file' = NoFile
    /\ r_checksum' = ""
    /\ r_signedURLResponse' = NoSignedURLResponse
    /\ r_uploadResponse' = NoUploadResponse
    /\ r_response' = NoResponse
    /\ r_statusResponse' = NoResponse
    /\ r_console' = << >>
    /\ r_calls' = << >>
    /\ r_failedAt' = "none"
    /\ r_start' = db
    /\ UNCHANGED << serverVars, runVars, brokerVars, formVars >>

\* --------------------------------------------------------- ApplicationForm
\* the check of the authorization's answer testing only !signedURLResponse
f_signedURLRejected_NullOnly(signedURLResponse) == signedURLResponse.isNull

\* !signedURLResponse?.url, application-form.tsx:75
f_signedURLRejected(signedURLResponse) ==
    signedURLResponse.isNull \/ ~signedURLResponse.url.signed

\* the check of the transfer's answer testing only !uploadResponse
f_uploadRejected_NullOnly(uploadResponse) == uploadResponse.isNull

\* !uploadResponse || !uploadResponse.success, application-form.tsx:86
f_uploadRejected(uploadResponse) ==
    uploadResponse.isNull \/ ~uploadResponse.success

\* applicationResponse?.statusCode !== 200, application-form.tsx:66
f_postRejected(applicationResponse) ==
    applicationResponse.isNull \/ applicationResponse.statusCode # 200

\* applicationResponse?.message ?? 'Post of application failed'
PostErrorMessage(applicationResponse) ==
    IF applicationResponse.isNull THEN << "Post of application failed" >>
    ELSE << "Internal server error" >>

\* `Failed to get signed URL for ${file.name}`, application-form.tsx:76
f_SignedURLErrorMessage(file) == << "Failed to get signed URL for ", file.name >>

\* application-form.tsx:87
f_UploadErrorMessage(file) ==
    << "S3 upload validation failed for ", file.name, " - unexpected response format" >>

\* application-form.tsx:105-108
f_SuccessToast ==
    [ title |-> "Application created with success",
      description |-> << "You can access your current application in your profile page" >>,
      variant |-> "" ]

\* the status onSubmit asks for, application-form.tsx:100-103
f_newStatus(userData) ==
    IF userData.application.status.status = "NOTIFIED" THEN "UPDATED" ELSE "PENDING"

\* `upload_mtym/${uploadFolderName}/${file.name}`, application-form.tsx:52, 73, 95-96
f_objectKey(file) ==
    objectKey(getUploadFolderName(f_userData.firstName, f_userData.lastName),
              file.name)

\* schoolCertificateUrl: `upload_mtym/${uploadFolderName}/${files[0].name}`,
\* application-form.tsx:95
schoolCertificateUrl ==
    objectKey(getUploadFolderName(f_userData.firstName, f_userData.lastName),
              f_files[1].name)

\* gradesUrl: `upload_mtym/${uploadFolderName}/${files[1].name}`,
\* application-form.tsx:96
gradesUrl ==
    objectKey(getUploadFolderName(f_userData.firstName, f_userData.lastName),
              f_files[2].name)

NoError == [ message |-> EmptyString ]

NoFormResponses ==
    [ applicationResponse |-> NoResponse,
      signedURLResponse |-> << NoSignedURLResponse, NoSignedURLResponse >>,
      uploadResponse |-> << NoUploadResponse, NoUploadResponse >>,
      putResponse |-> NoResponse,
      statusResponse |-> NoResponse ]

\* the state onSubmit leaves alone
f_pageEnv == << f_userData, f_toast, f_start >>

\* onSubmit's catch and finally, application-form.tsx:114-119
f_catch(at, message) ==
    /\ error' = [ message |-> message ]
    /\ showErrorDialog' = TRUE
    /\ isFormLoading' = FALSE
    /\ f_failedAt' = at
    /\ f_pc' = "failed"

\* onSubmit up to its first await, application-form.tsx:49-64
F_OnSubmit ==
    /\ "form" \in opened
    /\ f_runs < MaxRuns
    /\ f_runs' = f_runs + 1
    /\ f_pc \in { "idle", "failed" }
    /\ isFormLoading' = TRUE
    /\ \E schoolCertificate \in FormInputFiles, grades \in FormInputFiles,
          n1 \in Names, n2 \in Names :
          f_files' =
             << [ name |-> << "school_certificate_", n1, schoolCertificate.name[2] >>,
                  type |-> schoolCertificate.type, size |-> schoolCertificate.size ],
                [ name |-> << "grades_", n2, grades.name[2] >>,
                  type |-> grades.type, size |-> grades.size ] >>
    /\ f_pc' = "postApplication"
    /\ f_calls' = << "postApplication" >>
    /\ f_index' = 0
    /\ f_applicationId' = 0
    /\ f_checksum' = ""
    /\ f_console' = << >>
    /\ f_responses' = NoFormResponses
    /\ f_failedAt' = "none"
    /\ f_start' = db
    /\ UNCHANGED << serverVars, r_runs, brokerVars, reportVars, f_userData,
                    error, showErrorDialog, f_toast >>

\* await postApplication(excludeFileFields(formData)) and the check of its
\* answer, application-form.tsx:64-72
F_PostApplicationReturn ==
    /\ f_pc = "postApplication"
    /\ \E applicationResponse \in CommitOutcomes :
          /\ f_responses' = [ f_responses EXCEPT !.applicationResponse = applicationResponse ]
          /\ db' = IF IsStatus200(applicationResponse)
                   THEN [ db EXCEPT !.formData = "posted" ]
                   ELSE db
          /\ IF applicationResponse.thrown
               THEN /\ f_catch("postApplication", NetworkErrorMessage)
                    /\ UNCHANGED << f_calls, f_index, f_applicationId >>
             ELSE IF f_postRejected(applicationResponse)
               THEN /\ f_catch("applicationResponse", PostErrorMessage(applicationResponse))
                    /\ UNCHANGED << f_calls, f_index, f_applicationId >>
             ELSE /\ f_applicationId' = db.id
                  /\ f_index' = 1
                  /\ f_pc' = "computeSHA256"
                  /\ f_calls' = Append(f_calls, "computeSHA256")
                  /\ UNCHANGED << error, showErrorDialog, isFormLoading, f_failedAt >>
    /\ UNCHANGED << runVars, opened, applicationsOpen, stored, brokerVars, reportVars,
                    f_pageEnv, f_files, f_checksum, f_console >>

\* await computeSHA256(file), application-form.tsx:72
F_ComputeSHA256Return ==
    /\ f_pc = "computeSHA256"
    /\ \/ /\ f_checksum' = computeSHA256(f_files[f_index])
          /\ f_pc' = "getSignedURL"
          /\ f_calls' = Append(f_calls, "getSignedURL")
          /\ UNCHANGED << error, showErrorDialog, isFormLoading, f_failedAt >>
       \/ /\ f_catch("computeSHA256", << "NotReadableError" >>)
          /\ UNCHANGED << f_checksum, f_calls >>
    /\ UNCHANGED << serverVars, runVars, brokerVars, reportVars, f_pageEnv, f_files,
                    f_index, f_applicationId, f_console, f_responses >>

\* await getSignedURL(...) and the check of its answer, application-form.tsx:73-78
F_GetSignedURLReturn ==
    /\ f_pc = "getSignedURL"
    /\ LET file == f_files[f_index]
           exec == getSignedURLExec(UserId, f_objectKey(file), file.type,
                                    file.size, f_checksum)
       IN \E signedURLResponse \in SignedURLOutcomes(exec.ret) :
            /\ f_responses' =
                  [ f_responses EXCEPT !.signedURLResponse[f_index] = signedURLResponse ]
            /\ IF signedURLResponse.thrown
                 THEN /\ f_catch("getSignedURL", NetworkErrorMessage)
                      /\ UNCHANGED << f_calls, f_console >>
               ELSE IF f_signedURLRejected(signedURLResponse)
                 THEN /\ f_catch("signedURLResponse", f_SignedURLErrorMessage(file))
                      /\ UNCHANGED << f_calls, f_console >>
               ELSE /\ f_console' =
                          Append(f_console,
                                 ConsoleEntry("log", "Starting S3 upload for application file:",
                                              EmptyString, {}))
                    /\ f_pc' = "uploadFile"
                    /\ f_calls' = Append(f_calls, "uploadFile")
                    /\ UNCHANGED << error, showErrorDialog, isFormLoading, f_failedAt >>
    /\ UNCHANGED << serverVars, runVars, brokerVars, reportVars, f_pageEnv, f_files,
                    f_index, f_applicationId, f_checksum >>

\* await uploadFile(signedURLResponse.url, file), the check of its answer and
\* the loop's next turn, application-form.tsx:71 and 80-98
F_UploadFileReturn ==
    /\ f_pc = "uploadFile"
    /\ LET file == f_files[f_index]
       IN \E uploadResponse \in UploadOutcomes :
            /\ f_responses' =
                  [ f_responses EXCEPT !.uploadResponse[f_index] = uploadResponse ]
            /\ stored' = IF ~uploadResponse.thrown /\ ~uploadResponse.isNull
                            /\ uploadResponse.success
                         THEN stored \cup
                              { f_responses.signedURLResponse[f_index].url.cmd.Key }
                         ELSE stored
            /\ IF uploadResponse.thrown
                 THEN /\ f_catch("uploadFile", NetworkErrorMessage)
                      /\ UNCHANGED << f_calls, f_console, f_index >>
               ELSE IF f_uploadRejected(uploadResponse)
                 THEN /\ f_catch("uploadResponse", f_UploadErrorMessage(file))
                      /\ UNCHANGED << f_calls, f_console, f_index >>
               ELSE /\ f_console' =
                          Append(f_console,
                                 ConsoleEntry("log", "S3 upload verified successful for application file:",
                                              EmptyString, {}))
                    /\ IF f_index < Len(f_files)
                         THEN /\ f_index' = f_index + 1
                              /\ f_pc' = "computeSHA256"
                              /\ f_calls' = Append(f_calls, "computeSHA256")
                       ELSE /\ f_pc' = "putApplication"
                            /\ f_calls' = Append(f_calls, "putApplication")
                            /\ UNCHANGED f_index
                    /\ UNCHANGED << error, showErrorDialog, isFormLoading, f_failedAt >>
    /\ UNCHANGED << runVars, opened, applicationsOpen, db, brokerVars, reportVars,
                    f_pageEnv, f_files, f_applicationId, f_checksum >>

\* await putApplication(applicationId, {schoolCertificateUrl, gradesUrl}): its
\* answer is not looked at, application-form.tsx:94-100
F_PutApplicationReturn ==
    /\ f_pc = "putApplication"
    /\ \E putResponse \in CommitOutcomes :
          /\ f_responses' = [ f_responses EXCEPT !.putResponse = putResponse ]
          /\ db' = IF IsStatus200(putResponse)
                   THEN attachObject(
                          attachObject(db, "schoolCertificateUrl", schoolCertificateUrl),
                          "gradesUrl", gradesUrl)
                   ELSE db
          /\ IF putResponse.thrown
               THEN /\ f_catch("putApplication", NetworkErrorMessage)
                    /\ UNCHANGED f_calls
             ELSE /\ f_pc' = "updateApplicationStatus"
                  /\ f_calls' = Append(f_calls, "updateApplicationStatus")
                  /\ UNCHANGED << error, showErrorDialog, isFormLoading, f_failedAt >>
    /\ UNCHANGED << runVars, opened, applicationsOpen, stored, brokerVars, reportVars,
                    f_pageEnv, f_files, f_index, f_applicationId, f_checksum,
                    f_console >>

\* await updateApplicationStatus(applicationId, {status}): its answer is not
\* looked at; then the toast and router.push, application-form.tsx:100-113
F_UpdateApplicationStatusReturn ==
    /\ f_pc = "updateApplicationStatus"
    /\ \E statusResponse \in CommitOutcomes :
          /\ f_responses' = [ f_responses EXCEPT !.statusResponse = statusResponse ]
          /\ db' = IF IsStatus200(statusResponse)
                   THEN resetReviewStatus(db, "status", f_newStatus(f_userData))
                   ELSE db
          /\ IF statusResponse.thrown
               THEN /\ f_catch("updateApplicationStatus", NetworkErrorMessage)
                    /\ UNCHANGED f_toast
             ELSE /\ f_toast' = f_SuccessToast
                  /\ isFormLoading' = FALSE
                  /\ f_pc' = "reloading"
                  /\ UNCHANGED << error, showErrorDialog, f_failedAt >>
    /\ UNCHANGED << runVars, opened, applicationsOpen, stored, brokerVars, reportVars,
                    f_userData, f_start, f_files, f_index, f_applicationId,
                    f_checksum, f_console, f_calls >>

\* the error dialog is closed, application-form.tsx:234
F_CloseErrorDialog ==
    /\ showErrorDialog
    /\ f_pc = "failed"
    /\ showErrorDialog' = FALSE
    /\ f_pc' = "idle"
    /\ f_files' = << NoFile, NoFile >>
    /\ f_index' = 0
    /\ f_applicationId' = 0
    /\ f_checksum' = ""
    /\ f_console' = << >>
    /\ f_responses' = NoFormResponses
    /\ f_calls' = << >>
    /\ f_failedAt' = "none"
    /\ f_start' = db
    /\ UNCHANGED << serverVars, runVars, brokerVars, reportVars, f_userData,
                    isFormLoading, error, f_toast >>

\* window.location.reload() after the timer of application-form.tsx:111-113
F_Reload ==
    /\ f_pc = "reloading"
    /\ f_pc' = "idle"
    /\ f_userData' = LoadUserData
    /\ isFormLoading' = FALSE
    /\ error' = NoError
    /\ showErrorDialog' = FALSE
    /\ f_toast' = NoToast
    /\ f_files' = << NoFile, NoFile >>
    /\ f_index' = 0
    /\ f_applicationId' = 0
    /\ f_checksum' = ""
    /\ f_console' = << >>
    /\ f_responses' = NoFormResponses
    /\ f_calls' = << >>
    /\ f_failedAt' = "none"
    /\ f_start' = db
    /\ UNCHANGED << serverVars, runVars, brokerVars, reportVars >>

\* ------------------------------------------------- a direct broker call
\* the arguments a caller of the endpoint may send
BrokerArgs ==
    [ filename : { objectKey(getUploadFolderName(firstName, lastName),
                             << "report_", n, "pdf" >>) : n \in Names },
      type : ContentTypes, size : Sizes, checksum : Checksums ]

NoBrokerArgs ==
    [ filename |-> EmptyString, type |-> "", size |-> 0, checksum |-> "" ]

\* MediaService.getSignedURL is called with b_args, media.service.ts:25-54
B_GetSignedURL ==
    /\ b_pc = "call"
    /\ LET exec == getSignedURLExec(UserId, b_args.filename, b_args.type,
                                    b_args.size, b_args.checksum)
       IN /\ b_ret' = exec.ret
          /\ minted' = minted \cup exec.signedCommands
    /\ b_pc' = "returned"
    /\ UNCHANGED << serverVars, runVars, b_args, reportVars, formVars >>

\* ------------------------------------------------------ specifications
\* the application record when the pages are opened
InitialRecords ==
    { [ id |-> 1, formData |-> "saved",
        reportUrl |-> IF st[1] = "DRAFT" THEN EmptyString ELSE OldReportUrl,
        schoolCertificateUrl |-> EmptyString, gradesUrl |-> EmptyString,
        status |-> [ status |-> st[1], reportStatus |-> st[2] ] ] :
      st \in { << "DRAFT", "PENDING" >>, << "PENDING", "PENDING" >>,
               << "PENDING", "VALID" >>, << "NOTIFIED", "VALID" >>,
               << "NOTIFIED", "NOT_VALID" >> } }

InitPages ==
    /\ r_userData = LoadUserData
    /\ isApplicationsOpen = TRUE
    /\ isCheckingStatus = TRUE
    /\ selectedFile = NoFile
    /\ uploading = FALSE
    /\ r_toast = NoToast
    /\ r_pc = "idle"
    /\ r_file = NoFile
    /\ r_checksum = ""
    /\ r_signedURLResponse = NoSignedURLResponse
    /\ r_uploadResponse = NoUploadResponse
    /\ r_response = NoResponse
    /\ r_statusResponse = NoResponse
    /\ r_console = << >>
    /\ r_statusQuery = NoStatusQuery
    /\ r_calls = << >>
    /\ r_failedAt = "none"
    /\ r_start = db
    /\ f_userData = LoadUserData
    /\ isFormLoading = FALSE
    /\ error = NoError
    /\ showErrorDialog = FALSE
    /\ f_toast = NoToast
    /\ f_pc = "idle"
    /\ f_files = << NoFile, NoFile >>
    /\ f_index = 0
    /\ f_applicationId = 0
    /\ f_checksum = ""
    /\ f_console = << >>
    /\ f_responses = NoFormResponses
    /\ f_calls = << >>
    /\ f_failedAt = "none"
    /\ f_start = db

\* the two pages open on one application; no direct broker call
Init ==
    /\ opened \in { { "report" }, { "form" } }
    /\ r_runs = 0
    /\ f_runs = 0
    /\ applicationsOpen \in BOOLEAN
    /\ db \in InitialRecords
    /\ stored = { OldReportUrl }
    /\ minted = {}
    /\ b_args = NoBrokerArgs
    /\ b_pc = "none"
    /\ b_ret = Null
    /\ InitPages

Next ==
    \/ R_CheckApplicationStatus
    \/ R_HandleFileChange
    \/ R_RemoveFile
    \/ R_HandleButtonClick
    \/ R_ComputeSHA256Return
    \/ R_GetSignedURLReturn
    \/ R_UploadFileReturn
    \/ R_PutApplicationReturn
    \/ R_UpdateApplicationStatusReturn
    \/ R_ToastDismissed
    \/ R_Reload
    \/ F_OnSubmit
    \/ F_PostApplicationReturn
    \/ F_ComputeSHA256Return
    \/ F_GetSignedURLReturn
    \/ F_UploadFileReturn
    \/ F_PutApplicationReturn
    \/ F_UpdateApplicationStatusReturn
    \/ F_CloseErrorDialog
    \/ F_Reload

Spec == Init /\ [][Next]_vars

\* the broker alone, called with every argument of BrokerArgs
InitBroker ==
    /\ opened = {}
    /\ r_runs = 0
    /\ f_runs = 0
    /\ applicationsOpen = TRUE
    /\ db \in { d \in InitialRecords :
                  d.status = [ status |-> "PENDING", reportStatus |-> "PENDING" ] }
    /\ stored = { OldReportUrl }
    /\ minted = {}
    /\ b_args \in BrokerArgs
    /\ b_pc = "call"
    /\ b_ret = Null
    /\ InitPages

NextBroker == B_GetSignedURL

SpecBroker == InitBroker /\ [][NextBroker]_vars

\* the report page and the form open at once on one application, each with
\* one submission to make, under every interleaving of their steps
InitConcurrent ==
    /\ opened = { "report", "form" }
    /\ r_runs = MaxRuns - 1
    /\ f_runs = MaxRuns - 1
    /\ applicationsOpen = TRUE
    /\ db \in { d \in InitialRecords :
                  d.status = [ status |-> "PENDING", reportStatus |-> "VALID" ] }
    /\ stored = { OldReportUrl }
    /\ minted = {}
    /\ b_args = NoBrokerArgs
    /\ b_pc = "none"
    /\ b_ret = Null
    /\ InitPages

SpecConcurrent == InitConcurrent /\ [][Next]_vars

\* an external call that handleUpload awaits returns or throws
R_CallReturns ==
    \/ R_ComputeSHA256Return
    \/ R_GetSignedURLReturn
    \/ R_UploadFileReturn
    \/ R_PutApplicationReturn
    \/ R_UpdateApplicationStatusReturn

\* an external call that onSubmit awaits returns or throws
F_CallReturns ==
    \/ F_PostApplicationReturn
    \/ F_ComputeSHA256Return
    \/ F_GetSignedURLReturn
    \/ F_UploadFileReturn
    \/ F_PutApplicationReturn
    \/ F_UpdateApplicationStatusReturn

\* one page open on an application, with one submission to make; applications
\* are open, the record is a draft or a submitted application with a valid
\* report
InitLive ==
    /\ opened \in { { "report" }, { "form" } }
    /\ r_runs = MaxRuns - 1
    /\ f_runs = MaxRuns - 1
    /\ applicationsOpen = TRUE
    /\ db \in { d \in InitialRecords :
                  d.status \in { [ status |-> "DRAFT", reportStatus |-> "PENDING" ],
                                 [ status |-> "PENDING", reportStatus |-> "VALID" ] } }
    /\ stored = { OldReportUrl }
    /\ minted = {}
    /\ b_args = NoBrokerArgs
    /\ b_pc = "none"
    /\ b_ret = Null
    /\ InitPages

\* the pages where every awaited call is answered in the end
SpecLive ==
    InitLive /\ [][Next]_vars /\ WF_vars(R_CallReturns) /\ WF_vars(F_CallReturns)

\* ------------------------------------------------------------ properties
Range(seq) == { seq[i] : i \in 1..Len(seq) }

\* the number of times a call appears in a run's calls
Count(seq, x) == Cardinality({ i \in 1..Len(seq) : seq[i] = x })

\* a message holds this segment
Contains(message, segment) == \E i \in 1..Len(message) : message[i] = segment

\* a transfer reported success: an answer, not null, with success true
TransferSucceeded(uploadResponse) ==
    ~uploadResponse.thrown /\ ~uploadResponse.isNull /\ uploadResponse.success

\* an authorization answer that carries a url
CarriesUrl(signedURLResponse) ==
    ~signedURLResponse.thrown /\ ~signedURLResponse.isNull
    /\ signedURLResponse.url.signed

\* the file references and the status fields of a record
FileRefsAndStatus(record) ==
    [ reportUrl |-> record.reportUrl,
      schoolCertificateUrl |-> record.schoolCertificateUrl,
      gradesUrl |-> record.gradesUrl,
      status |-> record.status ]

\* handleUpload's transfer has been answered
r_TransferAnswered == "uploadFile" \in Range(r_calls) /\ r_pc # "uploadFile"

\* onSubmit's transfer of file i has been answered
f_TransferAnswered(i) ==
    /\ Count(f_calls, "uploadFile") >= i
    /\ ~(f_pc = "uploadFile" /\ f_index = i)

\* handleUpload's authorization request has been answered
r_AuthorizationAnswered == "getSignedURL" \in Range(r_calls) /\ r_pc # "getSignedURL"

\* onSubmit's authorization request for file i has been answered
f_AuthorizationAnswered(i) ==
    /\ Count(f_calls, "getSignedURL") >= i
    /\ ~(f_pc = "getSignedURL" /\ f_index = i)

\* the commit calls of a run
CommitCalls == { "putApplication", "updateApplicationStatus" }

\* C1: in handleUpload and in onSubmit, putApplication and
\* updateApplicationStatus are called only after every transfer reported
\* success; after a transfer that failed or answered without a true success
\* flag the run has ended in failure, without a commit call, and the record's
\* file references and status fields are those of the run's start.
C1_CommitOnlyAfterTransfers ==
    /\ Range(r_calls) \cap CommitCalls # {} => TransferSucceeded(r_uploadResponse)
    /\ Range(f_calls) \cap CommitCalls # {} =>
          \A i \in 1..2 : TransferSucceeded(f_responses.uploadResponse[i])
    /\ (r_TransferAnswered /\ ~TransferSucceeded(r_uploadResponse)) =>
          /\ r_pc = "failed"
          /\ r_failedAt \in { "uploadFile", "uploadResponse" }
          /\ Range(r_calls) \cap CommitCalls = {}
          /\ FileRefsAndStatus(db) = FileRefsAndStatus(r_start)
    /\ \A i \in 1..2 :
          (f_TransferAnswered(i) /\ ~TransferSucceeded(f_responses.uploadResponse[i])) =>
             /\ f_pc = "failed"
             /\ f_failedAt \in { "uploadFile", "uploadResponse" }
             /\ showErrorDialog
             /\ Range(f_calls) \cap CommitCalls = {}
             /\ FileRefsAndStatus(db) = FileRefsAndStatus(f_start)

\* C1 happens: a transfer answered without the success flag and the run ended
C1_Witness ==
    /\ r_TransferAnswered
    /\ ~r_uploadResponse.thrown /\ ~r_uploadResponse.isNull
    /\ ~r_uploadResponse.success
    /\ r_pc = "failed"

\* C2: a run of handleUpload that started with reportStatus VALID and ended
\* with the success toast leaves reportStatus PENDING in the record.
C2_ValidReportResetToPending ==
    (r_pc = "reloading" /\ r_start.status.reportStatus = "VALID") =>
       db.status.reportStatus = "PENDING"

\* C3: when putApplication answers handleUpload with another status than 200,
\* the run ends in failure at once: no success toast, no call of
\* updateApplicationStatus, the record untouched, and the toast's message
\* holds the owner's first name, last name and the timestamp.
C3_OrphanedUploadReported ==
    [][ (r_pc = "putApplication" /\ r_pc' # "putApplication"
         /\ ~r_response'.thrown /\ ~IsStatus200(r_response')) =>
           /\ r_pc' = "failed"
           /\ r_failedAt' = "response"
           /\ r_toast'.variant = "destructive"
           /\ r_toast' # SuccessToast(r_userData.application.status.reportStatus)
           /\ Contains(r_toast'.description, firstName)
           /\ Contains(r_toast'.description, lastName)
           /\ Contains(r_toast'.description, Timestamp)
           /\ "updateApplicationStatus" \notin Range(r_calls')
           /\ db' = db ]_vars

\* C3 happens: the transfer succeeded and the commit answered 500
C3_Witness ==
    /\ r_pc = "failed"
    /\ r_failedAt = "response"
    /\ TransferSucceeded(r_uploadResponse)
    /\ ~r_response.isNull /\ r_response.statusCode = 500

\* C4: onSubmit shows its success toast only when putApplication and
\* updateApplicationStatus both answered 200.
C4_FormCommitFailureSurfaced ==
    (f_pc = "reloading" /\ f_toast = f_SuccessToast) =>
       /\ IsStatus200(f_responses.putResponse)
       /\ IsStatus200(f_responses.statusResponse)

\* the status query has answered with a failure: thrown, null or not 200
r_StatusQueryFailed ==
    /\ "report" \in opened
    /\ ~isCheckingStatus
    /\ \/ r_statusQuery.thrown
       \/ r_statusQuery.isNull
       \/ r_statusQuery.statusCode # 200

\* C5: once the status query has failed, the report page holds submissions
\* closed and no run of handleUpload starts: no call is made, nothing uploads.
C5_FailedStatusQueryClosesReport ==
    r_StatusQueryFailed =>
       /\ ~isApplicationsOpen
       /\ r_pc \in { "idle", "navigated" }
       /\ r_calls = << >>
       /\ ~uploading

\* C5 happens: the query threw while the server has applications open
C5_Witness ==
    r_StatusQueryFailed /\ r_statusQuery.thrown /\ applicationsOpen

\* C6: while applications are closed no workflow makes any call: no record is
\* posted, no checksum computed, no authorization asked, nothing transferred
\* or committed.
C6_GateBeforeAnyStep ==
    ~applicationsOpen => (r_calls = << >> /\ f_calls = << >>)

\* the content types the broker is to accept
AcceptedContentTypes ==
    { "image/png", "image/jpeg", "image/jpg", "image/webp", "application/pdf" }

\* C7: for a content type outside the accepted set getSignedURL returns null
\* and signs no command, whatever the size and the checksum.
C7_UnsupportedTypeRejected ==
    (b_pc = "returned" /\ b_args.type \notin AcceptedContentTypes) =>
       (b_ret = Null /\ minted = {})

\* C7 happens: a zip of one byte was refused
C7_Witness ==
    /\ b_pc = "returned"
    /\ b_args.type = "application/zip"
    /\ b_args.size = 1
    /\ b_ret = Null

\* C8: for a size above 15,728,640 getSignedURL returns null whatever the
\* content type, and an accepted content type of exactly 15,728,640 bytes is
\* signed.
C8_SizeCeilingInclusive ==
    b_pc = "returned" =>
       /\ b_args.size > 15728640 => (b_ret = Null /\ minted = {})
       /\ (b_args.type \in AcceptedContentTypes /\ b_args.size = 15728640) =>
             /\ b_ret # Null
             /\ b_ret.signed
             /\ b_ret.cmd.ContentLength = 15728640

\* C8 happens: an accepted type at the ceiling was signed
C8_Witness ==
    /\ b_pc = "returned"
    /\ b_args.type = "application/pdf"
    /\ b_args.size = 15728640
    /\ b_ret.signed

\* C9: uploadFile is called only with an authorization answer that carries a
\* url; a null answer or one without a url ends the run in failure at the
\* check of that answer, with no transfer of that file and no commit.
C9_TransferOnlyWithUrl ==
    /\ "uploadFile" \in Range(r_calls) => CarriesUrl(r_signedURLResponse)
    /\ \A i \in 1..2 :
          Count(f_calls, "uploadFile") >= i =>
             CarriesUrl(f_responses.signedURLResponse[i])
    /\ (r_AuthorizationAnswered /\ ~r_signedURLResponse.thrown
        /\ ~CarriesUrl(r_signedURLResponse)) =>
          /\ r_pc = "failed"
          /\ r_failedAt = "signedURLResponse"
          /\ "uploadFile" \notin Range(r_calls)
          /\ Range(r_calls) \cap CommitCalls = {}
    /\ \A i \in 1..2 :
          (f_AuthorizationAnswered(i) /\ ~f_responses.signedURLResponse[i].thrown
           /\ ~CarriesUrl(f_responses.signedURLResponse[i])) =>
             /\ f_pc = "failed"
             /\ f_failedAt = "signedURLResponse"
             /\ Count(f_calls, "uploadFile") = i - 1
             /\ Range(f_calls) \cap CommitCalls = {}

\* C9 happens: the form's second file got an answer without a url after the
\* first file was transferred
C9_Witness ==
    /\ f_AuthorizationAnswered(2)
    /\ ~f_responses.signedURLResponse[2].thrown
    /\ ~f_responses.signedURLResponse[2].isNull
    /\ ~f_responses.signedURLResponse[2].url.signed
    /\ f_pc = "failed"

\* handleUpload's status reset has been answered
r_StatusResetAnswered ==
    "updateApplicationStatus" \in Range(r_calls) /\ r_pc # "updateApplicationStatus"

\* C10: after the commit of the report reference, a status reset that answers
\* another status than 200 or throws leaves the run's outcome as it is: the
\* success toast is shown and the record keeps the committed reference.
C10_StatusResetFailureNotFatal ==
    (r_StatusResetAnswered /\ ~IsStatus200(r_statusResponse)) =>
       /\ r_pc = "reloading"
       /\ r_failedAt = "none"
       /\ r_toast = SuccessToast(r_userData.application.status.reportStatus)
       /\ IsStatus200(r_response)
       /\ db.reportUrl = r_objectKey

\* C10 happens: the status reset threw after the commit
C10_Witness ==
    /\ r_StatusResetAnswered
    /\ r_statusResponse.thrown
    /\ r_pc = "reloading"
\* the calls of onSubmit for one file, in the order of the loop's body
FileCalls == << "computeSHA256", "getSignedURL", "uploadFile" >>

\* onSubmit's first file ended the run: its authorization request threw or
\* came back without a url, or its transfer threw or came back without success
f_FirstFileFailed ==
    \/ /\ f_AuthorizationAnswered(1)
       /\ ~CarriesUrl(f_responses.signedURLResponse[1])
    \/ /\ f_TransferAnswered(1)
       /\ ~TransferSucceeded(f_responses.uploadResponse[1])

\* C11: onSubmit takes its two files one after the other, the school
\* certificate first and the grades second; the second file's checksum,
\* authorization and transfer come only after the first file's transfer
\* succeeded, and when the first file's authorization or transfer fails the
\* run ends in the error dialog with no call made for the second file.
C11_FirstFileFailureAborts ==
    /\ f_calls # << >> =>
          /\ f_files[1].name[1] = "school_certificate_"
          /\ f_files[2].name[1] = "grades_"
          /\ f_calls = SubSeq(<< "postApplication" >> \o FileCalls \o FileCalls
                                \o << "putApplication", "updateApplicationStatus" >>,
                              1, Len(f_calls))
    /\ Len(f_calls) > 4 => TransferSucceeded(f_responses.uploadResponse[1])
    /\ f_FirstFileFailed =>
          /\ f_pc = "failed"
          /\ f_index = 1
          /\ Len(f_calls) <= 4
          /\ f_responses.signedURLResponse[2] = NoSignedURLResponse
          /\ f_responses.uploadResponse[2] = NoUploadResponse
          /\ showErrorDialog
          /\ error # NoError
          /\ ~isFormLoading
          /\ f_toast # f_SuccessToast

\* C11 happens: the first file's transfer answered without success and the
\* run ended before the second file
C11_Witness ==
    /\ f_TransferAnswered(1)
    /\ ~f_responses.uploadResponse[1].thrown
    /\ ~f_responses.uploadResponse[1].isNull
    /\ ~f_responses.uploadResponse[1].success
    /\ f_pc = "failed"
    /\ f_calls = << "postApplication" >> \o FileCalls
\* the object key an authorization answer is bound to
BoundObjectKey(signedURLResponse) == signedURLResponse.url.cmd.Key

\* C12: once the commit has answered 200 after an authorization and a
\* transfer that succeeded, the reference in the record is the very key the
\* authorization was asked for and bound to, segment for segment: reportUrl
\* in handleUpload, schoolCertificateUrl and gradesUrl in onSubmit.
C12_CommittedKeyIsAuthorizedKey ==
    /\ (r_pc \in { "updateApplicationStatus", "reloading" }) =>
          /\ CarriesUrl(r_signedURLResponse)
          /\ TransferSucceeded(r_uploadResponse)
          /\ IsStatus200(r_response)
          /\ db.reportUrl = BoundObjectKey(r_signedURLResponse)
    /\ (f_pc \in { "updateApplicationStatus", "reloading" }
        /\ IsStatus200(f_responses.putResponse)) =>
          /\ \A i \in 1..2 : CarriesUrl(f_responses.signedURLResponse[i])
          /\ \A i \in 1..2 : TransferSucceeded(f_responses.uploadResponse[i])
          /\ db.schoolCertificateUrl = BoundObjectKey(f_responses.signedURLResponse[1])
          /\ db.gradesUrl = BoundObjectKey(f_responses.signedURLResponse[2])

\* C12 happens: a report was authorized, transferred and committed under a
\* new key
C12_Witness ==
    /\ r_pc = "reloading"
    /\ IsStatus200(r_response)
    /\ db.reportUrl = BoundObjectKey(r_signedURLResponse)
    /\ db.reportUrl # r_start.reportUrl
\* what getSignedURL returns for other arguments
ReturnFor(args) ==
    getSignedURLExec(UserId, args.filename, args.type, args.size, args.checksum).ret

\* C13: what getSignedURL returns for a content type outside the accepted
\* set (UnsupportedType, also when the size is above the ceiling too) can be
\* told from what it returns for an accepted content type with a size above
\* the ceiling (PayloadTooLarge).
C13_RejectionsDistinguishable ==
    (b_pc = "returned" /\ b_args.type \notin AcceptedContentTypes) =>
       \A other \in BrokerArgs :
          (other.type \in AcceptedContentTypes /\ other.size > 15728640) =>
             b_ret # ReturnFor(other)
\* a console entry whose data holds a signed URL
LogsSignedUrl(entry) == \E u \in entry.urls : u.signed

\* C14: no entry that handleUpload or onSubmit writes to the console holds a
\* signed URL, whether the run goes on or fails. (The messages of the toasts
\* and of the error dialog are text segments, names, a status and a
\* timestamp; the console is where a URL can appear.)
C14_SignedUrlNeverLogged ==
    /\ \A i \in 1..Len(r_console) : ~LogsSignedUrl(r_console[i])
    /\ \A i \in 1..Len(f_console) : ~LogsSignedUrl(f_console[i])
\* the file references of the record
FileReferences == { db.reportUrl, db.schoolCertificateUrl, db.gradesUrl }

\* C15: with the report page and the form submitting at once for the same
\* application, under every interleaving of their calls, each file reference
\* the record holds names an object that is in storage.
C15_ReferencesNameStoredObjects ==
    \A ref \in FileReferences : ref # EmptyString => ref \in stored

\* C15 happens: both submissions were in flight together and both have
\* committed their references
C15_Witness ==
    /\ r_pc = "updateApplicationStatus"
    /\ f_pc = "updateApplicationStatus"
    /\ db.reportUrl = reportUrl
    /\ db.reportUrl # OldReportUrl
    /\ db.schoolCertificateUrl = schoolCertificateUrl
    /\ db.gradesUrl = gradesUrl
\* the messages of the ordinary failures: no authorization, no transfer, a
\* call that threw
OrdinaryFailureMessages ==
    { SignedURLErrorMessage, UploadErrorMessage, NetworkErrorMessage }

\* C16: when handleUpload's putApplication, called after the transfer
\* succeeded, does not answer 200 (another status, no answer, or an error
\* thrown by the call), the run ends in failure with the urgent message, which
\* names the owner and the timestamp and is none of the ordinary failures'
\* messages.
C16_EveryCommitFailureUrgent ==
    [][ (r_pc = "putApplication" /\ r_pc' # "putApplication"
         /\ ~IsStatus200(r_response')) =>
           /\ r_pc' = "failed"
           /\ r_toast'.variant = "destructive"
           /\ r_toast'.description \notin OrdinaryFailureMessages
           /\ r_toast'.description =
                 UrgentMessage(r_response', r_userData, Timestamp) ]_vars
\* the steps of a run of handleUpload that await a call
r_Steps ==
    { "computeSHA256", "getSignedURL", "uploadFile", "putApplication",
      "updateApplicationStatus" }

\* the steps of a run of onSubmit that await a call
f_Steps ==
    { "postApplication", "computeSHA256", "getSignedURL", "uploadFile",
      "putApplication", "updateApplicationStatus" }

\* a run has ended: in failure, or done with the reload pending
Terminal == { "failed", "reloading" }

\* the awaited call of handleUpload can end the run in failure
r_FailureEnabled == ENABLED (R_CallReturns /\ r_pc' = "failed")

\* the awaited call of onSubmit can end the run in failure
f_FailureEnabled == ENABLED (F_CallReturns /\ f_pc' = "failed")

\* a run that has ended has its busy flag false again, and the report page's
\* button is enabled while a file is selected
BusyFlagReleased ==
    /\ r_pc \in Terminal => ~uploading
    /\ (r_pc = "failed" /\ selectedFile # NoFile) => ~buttonDisabled
    /\ f_pc \in Terminal => ~isFormLoading

\* C17 as stated: with every awaited call answered in the end, a run that
\* started ends (done or failed); at every step that awaits a call the run
\* can end in failure; and a run that ended has released its busy flag.
C17_TerminatesFailureFromEveryStep ==
    /\ [](r_pc \in r_Steps => r_FailureEnabled)
    /\ [](f_pc \in f_Steps => f_FailureEnabled)
    /\ []BusyFlagReleased
    /\ (r_pc \in r_Steps) ~> (r_pc \in Terminal)
    /\ (f_pc \in f_Steps) ~> (f_pc \in Terminal)

\* C17 as amended: with every awaited call answered in the end, a run that
\* started ends (done or failed); at every step that awaits a call, except
\* handleUpload's status reset, the run can end in failure, while every answer
\* of handleUpload's status reset, a thrown error too, ends the run as done;
\* and a run that ended has released its busy flag.
C17_TerminatesBusyFlagReleased ==
    /\ [](r_pc \in r_Steps \ { "updateApplicationStatus" } => r_FailureEnabled)
    /\ [](r_pc = "updateApplicationStatus" => ~r_FailureEnabled)
    /\ [](f_pc \in f_Steps => f_FailureEnabled)
    /\ []BusyFlagReleased
    /\ (r_pc \in r_Steps) ~> (r_pc \in Terminal)
    /\ (f_pc \in f_Steps) ~> (f_pc \in Terminal)

\* C17 happens: a run of handleUpload ended in failure at its commit and the
\* page is ready for the next submission
C17_Witness ==
    /\ r_pc = "failed"
    /\ r_failedAt = "putApplication"
    /\ ~uploading
    /\ ~buttonDisabled
\* the status query answered that applications are open
r_StatusQueryOpen ==
    /\ ~r_statusQuery.thrown
    /\ ~r_statusQuery.isNull
    /\ r_statusQuery.statusCode = 200
    /\ r_statusQuery.isOpen

\* C18: while the report page's status query is pending the open flag holds
\* its initial true, and no run of handleUpload exists: none has started, no
\* call has been made, nothing uploads. A run that has started did so after
\* the query answered, and the query answered that applications are open.
C18_NoUploadWhileStatusPending ==
    /\ isCheckingStatus =>
          /\ isApplicationsOpen
          /\ r_pc = "idle"
          /\ r_calls = << >>
          /\ ~uploading
    /\ r_calls # << >> => (~isCheckingStatus /\ r_StatusQueryOpen)

\* C18 happens: after a submission and the reload the query is pending again,
\* the flag is true again and no run is under way
C18_Witness ==
    /\ "report" \in opened
    /\ r_runs = 1
    /\ isCheckingStatus
    /\ isApplicationsOpen
    /\ r_pc = "idle"
====
